---- MODULE Spec2Model ----
(***************************************************************************)
(* Model of the LinkedIn extraction engine of job-offer-analyzer:          *)
(* LinkedinExtractor.scrape_jobs, parse_job_listings and                   *)
(* populate_job_details (utils/linkedin_scrapper.py), with the helpers     *)
(* they call: fetch_page/_get_text/_get_href (utils/base_scrapper.py),     *)
(* LanguageDetector.detect (utils/local_llm/language_detector.py) and      *)
(* OpenAIjobAnalyser.extract_job_data.                                     *)
(*                                                                         *)
(* Python strings are sequences of one-character strings, so that strip,   *)
(* lower and split are computed the way the code computes them.            *)
(***************************************************************************)
EXTENDS Integers, Sequences, FiniteSets, TLC

\* ------------------------------------------------------------------ bounds
NumPositions == 2      \* len(self.positions)
MaxQuota == 2          \* largest max_jobs / max_jobs_per_position tried
MaxNodes == 2          \* largest number of cards on one listing page
MaxSaved == 2          \* largest collection written to a snapshot
MaxExports == 2        \* largest number of export_jobs calls on a collection

\* --------------------------------------------------------------- constants
MAX_EMPTY_PAGES == 3

\* ----------------------------------------------------------------- strings
EMPTY == <<>>
UNKNOWN == <<"u","n","k","n","o","w","n">>
EN == <<"e","n">>
FR == <<"f","r">>
FR_UPPER == <<"F","R">>

LowerChar(c) ==
    CASE c = "D" -> "d"
      [] c = "Q" -> "q"
      [] c = "X" -> "x"
      [] c = "Y" -> "y"
      [] c = "F" -> "f"
      [] c = "R" -> "r"
      [] c = "T" -> "t"
      [] OTHER -> c

\* str.lower()
Lower(s) == [i \in DOMAIN s |-> LowerChar(s[i])]

IsSpace(c) == c = " "

\* str.strip()
Strip(s) ==
    LET keep == {i \in DOMAIN s : ~IsSpace(s[i])}
        lo == CHOOSE i \in keep : \A j \in keep : i <= j
        hi == CHOOSE i \in keep : \A j \in keep : j <= i
    IN  IF keep = {} THEN EMPTY ELSE SubSeq(s, lo, hi)

\* s.split(c)[-1]
SplitLast(s, c) ==
    LET at == {i \in DOMAIN s : s[i] = c}
        last == CHOOSE i \in at : \A j \in at : j <= i
    IN  IF at = {} THEN s ELSE SubSeq(s, last + 1, Len(s))

\* s.split(c)[0]
SplitFirst(s, c) ==
    LET at == {i \in DOMAIN s : s[i] = c}
        first == CHOOSE i \in at : \A j \in at : i <= j
    IN  IF at = {} THEN s ELSE SubSeq(s, 1, first - 1)

\* job_url.split('-')[-1].split('?')[0]
JobIdOfUrl(job_url) == SplitFirst(SplitLast(job_url, "-"), "?")

\* ------------------------------------------------------------ input universe
\* href values of the card's full-link element; EMPTY when the element or the
\* attribute is missing (_get_href returns '').
Hrefs == { EMPTY,
           <<"w","-","1","?","t">>,
           <<"v","-">> }

\* raw texts of the card's title and subtitle (company) elements; a blank
\* text stands for a missing element too (_get_text returns '' for both)
CardTexts == { << <<"D">>, <<"X">> >>,
               << <<" ","d"," ">>, <<"X"," ">> >>,
               << <<"D">>, <<"Y">> >>,
               << <<" ">>, <<"X">> >> }

TitleTexts == { t[1] : t \in CardTexts }

CompanyTexts == { t[2] : t \in CardTexts }

\* raw text of the description element of a detail page
DescriptionTexts == { <<" ">>, <<"j","o","b">> }

\* what fetch_page returns for the detail URL: None, '' or markup
DetailResults == { "none", "empty", "page" }

\* the call that raises while the card is processed, if any
FailPoints == { "none", "map", "detect_title", "detect_desc", "ai" }

\* response.usage.total_tokens of a successful AI call
TokenCosts == { 2 }

\* fastText labels, "__label__" already removed
Labels == { EN, FR_UPPER }

HELLO_WORLD == <<"H","e","l","l","o"," ","w","o","r","l","d">>

\* texts the fastText model is asked about
ModelTexts == { HELLO_WORLD }

\* text of the card's listdate element: missing, relative ("2 d" for
\* "2 days ago") or an ISO date
RELATIVE_DATE == <<"2"," ","d">>
ISO_DATE == <<"2","0","2","4","-","0","1","-","0","1">>
PostedTimeTexts == { EMPTY, RELATIVE_DATE, ISO_DATE }

\* A card and what the collaborators do while it is processed. Parts that the
\* code cannot read (the detail page of a card whose title detection raises,
\* the token cost of a call that raises, ...) are fixed to one value, so that
\* each distinguishable input is enumerated once.
Unread(node) ==
    /\ node.fail \in {"map", "detect_title"} => node.detail = "page"
    /\ node.fail \in {"map", "detect_title", "detect_desc"} \/ node.detail # "page"
          => node.description = <<" ">>
    /\ node.detail # "page" => node.fail = "none"
    /\ node.fail # "none" \/ node.detail # "page" \/ node.description = <<" ">>
          => node.token_cost = 2
    /\ node.fail = "ai" => node.description # <<" ">>
    /\ <<node.title, node.company>> \in CardTexts
    /\ node.href = EMPTY \/ node.fail = "map"
          => node.title = <<"D">> /\ node.company = <<"X">>
    /\ node.href = EMPTY => node.fail \in {"none", "map"} /\ node.detail = "page"
    /\ node.listdate = RELATIVE_DATE

Nodes ==
    { node \in [ href : Hrefs, title : TitleTexts, company : CompanyTexts,
                 detail : DetailResults, description : DescriptionTexts,
                 fail : FailPoints, token_cost : TokenCosts,
                 listdate : PostedTimeTexts ] :
        Unread(node) }

\* sanitizedJobDescription of an Indeed detail page, as text, and what the
\* collaborators do while extract_job_details_data runs
IndeedDetails ==
    [ description : { <<" "," ">>, <<"j"," "," ","b">> },
      fail : { "none", "detect_desc", "ai" },
      token_cost : TokenCosts ]

\* ------------------------------------------------------------------- state
VARIABLES
    \* LinkedinExtractor configuration
    max_jobs, max_jobs_per_position, should_analyze, desired_language,
    \* LanguageDetector.model: the prediction for each text
    model,
    \* LinkedinExtractor state
    job_listings, used_tokens,
    \* scrape_jobs locals
    pc, position, total_jobs, current_position_valid_jobs, page,
    consecutive_empty_pages, returned,
    \* parse_job_listings locals
    node_index, found_valid_jobs, initial_listing_count,
    \* the calls issued for the card processed last, in order
    last,
    \* the calls issued by IndeedExtractor.extract_job_details_data
    indeed,
    \* the sleeps and the listing-page fetch of the step taken last, in order
    io,
    \* the arguments and environment of a construction, and what it did
    ctor,
    \* what load_jobs_from_json reads back from the snapshot of the collection
    reloaded,
    \* the listing-page fetches of the current position, while none of them
    \* returned cards and they all ended the same way: how they ended, their
    \* number and the back-off sleeps taken
    streak,
    \* the listing pages in a row, in the current position, that ended without
    \* a record admitted
    barren,
    \* the page number of the listing request made last in the current
    \* position, -1 before the first
    offset,
    \* the token_cost of the analyses extract_job_data returned so far, added up
    spent,
    \* the rows each export_jobs call handed to the spreadsheet, in order
    sheets

config == <<max_jobs, max_jobs_per_position, should_analyze, desired_language, model>>
driver == <<pc, position, total_jobs, current_position_valid_jobs, page,
            consecutive_empty_pages, returned>>
parser == <<node_index, found_valid_jobs, initial_listing_count>>
journal == <<io, streak>>
startup == <<ctor, reloaded, sheets>>
ledger == <<barren, offset, spent>>
vars == <<config, job_listings, used_tokens, driver, parser, last, indeed,
          journal, startup, ledger>>

\* ----------------------------------------------------------- construction
\* shared.py dictionaries
job_type_dict == ("On-site" :> 1) @@ ("Remote" :> 2) @@ ("Hybrid" :> 3)

experience_level_dict ==
    ("Intern" :> 1) @@ ("Assistant" :> 2) @@ ("Junior" :> 3)
        @@ ("Mid-Senior" :> 4) @@ ("Director" :> 5) @@ ("Executive" :> 6)

publish_timespan_dict ==
    ("None" :> "") @@ ("Day" :> "r86400") @@ ("Week" :> "r604800")
        @@ ("Month" :> "r2592000")

\* dict.get(key): the value, or None
DictGet(dict, key) ==
    IF key \in DOMAIN dict
    THEN [ found |-> TRUE, value |-> dict[key] ]
    ELSE [ found |-> FALSE ]

\* a test that lets every value through
IsFalsy_Never(got, zero) == FALSE

\* "not x" for the result of dict.get: None is false, and so is the falsy
\* value of the dictionary's value type (0, '')
IsFalsy(got, zero) == ~got.found \/ got.value = zero

\* os.getenv(name) or argument: the variable when set and not empty
EnvOr(env, argument) == IF env = "" THEN argument ELSE env

\* a value that is no key of any dictionary
BAD_KEY == "Contract"

\* the records main loaded from the snapshot (job_id only)
Snapshots == { <<>>, << [job_id |-> <<"1">>] >> }

\* who constructs the extractor, the arguments and the environment
CtorInputs ==
    { c \in [ caller : {"main", "direct"},
              type : DOMAIN job_type_dict \cup {BAD_KEY},
              JOB_TYPE : {"", "Remote"},
              experience_level : DOMAIN experience_level_dict \cup {BAD_KEY},
              publish_timespan : DOMAIN publish_timespan_dict \cup {BAD_KEY},
              USE_AZURE_OPENAI : {<<"f","a","l","s","e">>, <<"T","r","u","e">>},
              JOB_DESIRED_LANGUAGE : {EMPTY, FR_UPPER},
              linkedin_jobs : Snapshots ] :
        c.caller = "direct" => c.linkedin_jobs = <<>> }

NotConstructed == [ state |-> "none" ]

\* no snapshot was written and read back
NotSaved == [ state |-> "none" ]

\* the outcome of a construction: the exception raised, if any, whether the
\* AI client was created, the pages fetched, and job_listings when it succeeds
Constructed(raised, analyzer, listings) ==
    [ state |-> "returned", raised |-> raised, analyzer_created |-> analyzer,
      fetches |-> 0, job_listings |-> listings ]

\* main() calls LinkedinExtractor with the keyword arguments use_ai_analysis,
\* desired_language, azure_openai_analyzer and job_listings; __init__ declares
\* none of them, so the call raises TypeError before the body runs.
BindsArguments(c) == c.caller # "main"

TRUE_TEXT == <<"t","r","u","e">>

\* LinkedinExtractor.__init__
LinkedinInit(c) ==
    LET job_type == DictGet(job_type_dict, EnvOr(c.JOB_TYPE, c.type))
        experience_level == DictGet(experience_level_dict, c.experience_level)
        publish_timespan == DictGet(publish_timespan_dict, c.publish_timespan)
        analyze == Lower(c.USE_AZURE_OPENAI) = TRUE_TEXT
        language == Lower(c.JOB_DESIRED_LANGUAGE)
    IN  IF ~BindsArguments(c) THEN Constructed("TypeError", FALSE, <<>>)
        ELSE IF IsFalsy(job_type, 0) THEN Constructed("ValueError", FALSE, <<>>)
        ELSE IF IsFalsy(experience_level, 0)
        THEN Constructed("ValueError", FALSE, <<>>)
        ELSE IF IsFalsy(publish_timespan, "")
        THEN Constructed("ValueError", FALSE, <<>>)
        ELSE IF analyze /\ language = EMPTY
        THEN Constructed("ValueError", FALSE, <<>>)
        ELSE Constructed("none", analyze, <<>>)

\* IndeedExtractor.__init__, its AI analysis setup
IndeedInit(enable_ai_analysis, target_language) ==
    IF enable_ai_analysis /\ Lower(target_language) = EMPTY
    THEN Constructed("ValueError", FALSE, <<>>)
    ELSE Constructed("none", TRUE, <<>>)

\* _get_text: element.text.strip(), '' when no element
GetText(text) == Strip(text)

\* _get_href: element.get('href', '')
GetHref(href) == href

\* fetch_page result as the caller tests it: "not content" is true for None and ''
NotContent(result) == result \in {"none", "empty"}

\* detect without its test for blank text
Detect_NoBlankTest(text) == model[HELLO_WORLD]

\* LanguageDetector.detect
Detect(text) ==
    IF Strip(text) = EMPTY THEN UNKNOWN ELSE model[HELLO_WORLD]

\* Python values of posted_time: None, a str, a datetime (named by its
\* isoformat text)
NoneValue == [ type |-> "None", value |-> EMPTY ]
StrValue(text) == [ type |-> "str", value |-> text ]
DateTimeValue(text) == [ type |-> "datetime", value |-> text ]

\* JobListing(title=..., url=..., company=..., job_id=...), other fields default
NewJobListing(job_title, job_url, job_company, job_id) ==
    [ title |-> job_title, url |-> job_url, company |-> job_company,
      job_id |-> job_id, title_lang |-> EMPTY, description_lang |-> EMPTY,
      required_studies |-> EMPTY, technologies_required |-> <<>>,
      experience_years_needed |-> 0, salary_offered |-> 0,
      posted_time |-> NoneValue ]

\* what extract_job_data returns when the call succeeds
JobAIanalysis(cost) ==
    [ required_studies |-> <<"B","S","c">>,
      technologies_required |-> << <<"p","y">> >>,
      experience_years_needed |-> 3, salary_offered |-> 1, token_cost |-> cost ]

\* the duplicate test with the title/company comparison made case-sensitive
IsDuplicate_CaseSensitive(job_id, job_title, job_company) ==
    \E i \in DOMAIN job_listings :
        \/ job_listings[i].job_id = job_id
        \/ /\ Strip(job_title) = Strip(job_listings[i].title)
           /\ Strip(job_company) = Strip(job_listings[i].company)

\* the duplicate test of parse_job_listings
IsDuplicate(job_id, job_title, job_company) ==
    \E i \in DOMAIN job_listings :
        \/ job_listings[i].job_id = job_id
        \/ /\ Lower(Strip(job_title)) = Lower(Strip(job_listings[i].title))
           /\ Lower(Strip(job_company)) = Lower(Strip(job_listings[i].company))

\* the title-language gate with the comparison inverted
TitleLanguageRejected_Inverted(job) == Lower(job.title_lang) = desired_language

\* the title-language gate of parse_job_listings
TitleLanguageRejected(job) == Lower(job.title_lang) # desired_language

\* the description-language gate letting every description through
DescriptionLanguageAccepted_Always(job) == TRUE

\* the description-language gate of parse_job_listings
DescriptionLanguageAccepted(job) == Lower(job.description_lang) = desired_language

\* the AI gate without the should_analyze flag
ShouldCallAI_NoFlag(job) == Lower(job.description_lang) = desired_language

\* the AI gate of populate_job_details
ShouldCallAI(job) ==
    should_analyze /\ Lower(job.description_lang) = desired_language

\* re.sub(r"\s+", " ", text): each run of whitespace becomes one space
RECURSIVE CollapseSpaces(_)
CollapseSpaces(s) ==
    IF Len(s) <= 1 THEN s
    ELSE IF IsSpace(s[1]) /\ IsSpace(s[2]) THEN CollapseSpaces(Tail(s))
    ELSE <<s[1]>> \o CollapseSpaces(Tail(s))

\* html_to_text, on the text of the parsed markup
HtmlToText(text) == Strip(CollapseSpaces(text))

\* OpenAIjobAnalyser.extract_job_data: returns the analysis, or logs and re-raises
ExtractJobData(node) ==
    IF node.fail = "ai"
    THEN [ exc |-> "Exception", analysis |-> JobAIanalysis(0) ]
    ELSE [ exc |-> "none", analysis |-> JobAIanalysis(node.token_cost) ]

\* populate_job_details without the line that adds the token cost
PopulateJobDetails_NoCharge(job, job_description, node) ==
    LET detected == [job EXCEPT !.description_lang = Detect(job_description)]
        ai == ExtractJobData(node)
        merged == [detected EXCEPT
                     !.required_studies = ai.analysis.required_studies,
                     !.technologies_required =
                         ai.analysis.technologies_required,
                     !.experience_years_needed =
                         ai.analysis.experience_years_needed,
                     !.salary_offered = ai.analysis.salary_offered]
    IN  IF node.fail = "detect_desc"
        THEN [ job |-> job, used_tokens |-> used_tokens, exc |-> "Exception",
               events |-> <<"detect_description">> ]
        ELSE IF ~ShouldCallAI(detected)
        THEN [ job |-> detected, used_tokens |-> used_tokens, exc |-> "none",
               events |-> <<"detect_description", "description_lang">> ]
        ELSE IF ai.exc # "none"
        THEN [ job |-> detected, used_tokens |-> used_tokens, exc |-> ai.exc,
               events |-> <<"detect_description", "description_lang",
                            "extract_job_data">> ]
        ELSE [ job |-> merged, used_tokens |-> used_tokens, exc |-> "none",
               events |-> <<"detect_description", "description_lang",
                            "extract_job_data", "analysis">> ]

\* LinkedinExtractor.populate_job_details(job, job_description, soup):
\* the job as mutated, the token counter, the exception raised (if any) and
\* the calls issued, in order
PopulateJobDetails(job, job_description, node) ==
    LET detected == [job EXCEPT !.description_lang = Detect(job_description)]
        ai == ExtractJobData(node)
        merged == [detected EXCEPT
                     !.required_studies = ai.analysis.required_studies,
                     !.technologies_required = ai.analysis.technologies_required,
                     !.experience_years_needed = ai.analysis.experience_years_needed,
                     !.salary_offered = ai.analysis.salary_offered]
    IN  IF node.fail = "detect_desc"
        THEN [ job |-> job, used_tokens |-> used_tokens, exc |-> "Exception",
               events |-> <<"detect_description">> ]
        ELSE IF ~ShouldCallAI(detected)
        THEN [ job |-> detected, used_tokens |-> used_tokens, exc |-> "none",
               events |-> <<"detect_description", "description_lang">> ]
        ELSE IF ai.exc # "none"
        THEN [ job |-> detected, used_tokens |-> used_tokens, exc |-> ai.exc,
               events |-> <<"detect_description", "description_lang",
                            "extract_job_data">> ]
        ELSE [ job |-> merged,
               used_tokens |-> used_tokens + ai.analysis.token_cost,
               exc |-> "none",
               events |-> <<"detect_description", "description_lang",
                            "extract_job_data", "analysis">> ]

\* IndeedExtractor.extract_job_details_data(job, job_details_data)
IndeedExtractJobDetailsData(job, node) ==
    LET clean_description == HtmlToText(node.description)
        detected == [job EXCEPT !.description_lang = Detect(clean_description)]
        ai == ExtractJobData(node)
        merged == [detected EXCEPT
                     !.experience_years_needed = ai.analysis.experience_years_needed,
                     !.required_studies = ai.analysis.required_studies]
    IN  IF node.fail = "detect_desc"
        THEN [ job |-> job, exc |-> "Exception",
               events |-> <<"detect_description">> ]
        ELSE IF ~ShouldCallAI(detected)
        THEN [ job |-> detected, exc |-> "none",
               events |-> <<"detect_description", "description_lang">> ]
        ELSE IF ai.exc # "none"
        THEN [ job |-> detected, exc |-> ai.exc,
               events |-> <<"detect_description", "description_lang",
                            "extract_job_data">> ]
        ELSE [ job |-> merged, exc |-> "none",
               events |-> <<"detect_description", "description_lang",
                            "extract_job_data", "analysis">> ]

\* outcome of one iteration of the card loop that ends before enrichment
\* a skipped card that empties the collection
Skipped_Clears(job, exc, events) ==
    [ job_listings |-> <<>>, used_tokens |-> used_tokens,
      found |-> FALSE, exc |-> exc, events |-> events, job |-> job ]

Skipped(job, exc, events) ==
    [ job_listings |-> job_listings, used_tokens |-> used_tokens,
      found |-> FALSE, exc |-> exc, events |-> events, job |-> job ]

NoJob == NewJobListing(EMPTY, EMPTY, EMPTY, EMPTY)

\* the candidate built from a card (job_url, job_id, job_title, job_company
\* and the JobListing made of them), its title language detected
MapNode(node) ==
    [ NewJobListing(GetText(node.title), GetHref(node.href),
                    GetText(node.company), JobIdOfUrl(GetHref(node.href)))
        EXCEPT !.posted_time = StrValue(GetText(node.listdate)),
               !.title_lang = Detect(GetText(node.title)) ]

\* one iteration of the card loop of parse_job_listings, up to the except
\* clauses: the collection and the counter after it, whether a record was
\* appended, the exception raised (if any), the calls issued and the candidate.
\* titled is MapNode(node).
ParseNode(node, titled) ==
    LET job == [titled EXCEPT !.title_lang = EMPTY]
        populated == PopulateJobDetails(titled, GetText(node.description), node)
        upto_title == <<"get_href", "job_url", "detect_title", "title_lang">>
        upto_fetch == upto_title \o <<"fetch_detail">>
    IN  IF node.fail = "map"
        THEN Skipped(NoJob, "AttributeError", <<"get_href">>)
        ELSE IF titled.url = EMPTY
        THEN Skipped(NoJob, "none", <<"get_href", "no_url">>)
        ELSE IF IsDuplicate(titled.job_id, titled.title, titled.company)
        THEN Skipped(NoJob, "none", <<"get_href", "job_url", "duplicate">>)
        ELSE IF node.fail = "detect_title"
        THEN Skipped(job, "Exception", <<"get_href", "job_url", "detect_title">>)
        ELSE IF TitleLanguageRejected(titled)
        THEN Skipped(titled, "none", upto_title)
        ELSE IF NotContent(node.detail)
        THEN Skipped(titled, "none", upto_fetch)
        ELSE IF populated.exc # "none"
        THEN [ job_listings |-> job_listings,
               used_tokens |-> populated.used_tokens,
               found |-> FALSE, exc |-> populated.exc,
               events |-> upto_fetch \o <<"detail_page", "populate">>
                              \o populated.events,
               job |-> populated.job ]
        ELSE IF DescriptionLanguageAccepted(populated.job)
        THEN [ job_listings |-> Append(job_listings, populated.job),
               used_tokens |-> populated.used_tokens,
               found |-> TRUE, exc |-> "none",
               events |-> upto_fetch \o <<"detail_page", "populate">>
                              \o populated.events \o <<"append">>,
               job |-> populated.job ]
        ELSE [ job_listings |-> job_listings,
               used_tokens |-> populated.used_tokens,
               found |-> FALSE, exc |-> "none",
               events |-> upto_fetch \o <<"detail_page", "populate">>
                              \o populated.events,
               job |-> populated.job ]

\* The collaborators answer when they are called: a node whose iteration does
\* not fetch the detail page, detect the description or get an analysis has
\* those parts fixed, and the call it makes fail is a call the iteration issues.
Called(events, call) == \E i \in DOMAIN events : events[i] = call

AnswersOnlyCalls(node, events) ==
    /\ ~Called(events, "fetch_detail") => node.detail = "page"
    /\ ~Called(events, "detect_description") => node.description = <<" ">>
    /\ ~Called(events, "analysis") => node.token_cost = 2
    /\ node.fail = "detect_title" => Called(events, "detect_title")
    /\ node.fail = "detect_desc" => Called(events, "detect_description")
    /\ node.fail = "ai" => Called(events, "extract_job_data")

\* the card loop with only its first except clause
CardHandlerCatches_OnlyAttributeError(exc) == exc = "AttributeError"

\* the except clauses of the card loop: AttributeError, then Exception
CardHandlerCatches(exc) == exc \in {"AttributeError", "Exception", "ValueError"}

\* the page loop catching only the ValueError parse_job_listings raises itself
PageHandlerCatches_OnlyValueError(exc) == exc = "ValueError"

\* the except clause of the page loop of scrape_jobs: Exception
PageHandlerCatches(exc) == exc \in {"AttributeError", "Exception", "ValueError"}

\* ------------------------------------------------------------ scrape_jobs
NoCard == [ events |-> <<>>, exc |-> "none", title_lang |-> EMPTY,
            description_lang |-> EMPTY ]

TraceOf(r) == [ events |-> r.events, exc |-> r.exc,
                title_lang |-> r.job.title_lang,
                description_lang |-> r.job.description_lang ]

\* what the fetch of a listing page does when the page is not parsed:
\* fetch_page returns None (a RequestException), returns '' (an empty body),
\* or raises something else
FailedListResults == { "none", "empty", "raise" }

\* the exception that leaves parse_job_listings before the card loop
ListingFetchRaises(result) ==
    IF result = "raise" THEN "Exception"
    ELSE IF NotContent(result) THEN "ValueError"
    ELSE "none"

\* the while body without its rate-limit sleep
RateLimited_NoSleep(result) == <<"fetch_page", result>>

\* one pass of the while body up to the fetch: the rate-limit sleep, then
\* parse_job_listings fetches the listing page
RateLimited(result) == <<"sleep", "fetch_page", result>>

\* the longer sleep of the except clause
BackOff == <<"sleep_long">>

NoStreak == [ kind |-> "none", fetches |-> 0, backoffs |-> 0 ]

Mixed == [ kind |-> "mixed", fetches |-> 0, backoffs |-> 0 ]

\* how a listing-page fetch that is not parsed ended: it failed, or it
\* returned an empty body
KindOf(result) == IF result = "empty" THEN "blank" ELSE "failed"

\* the streak after one more listing-page fetch of the given kind
Extend(kind, slept_long) ==
    IF streak.kind \in {"none", kind}
    THEN [ kind |-> kind, fetches |-> streak.fetches + 1,
           backoffs |-> streak.backoffs + slept_long ]
    ELSE Mixed

\* the while condition without the global quota
WhileCondition_NoGlobalQuota ==
    current_position_valid_jobs < max_jobs_per_position

\* the condition of the while loop
WhileCondition ==
    /\ current_position_valid_jobs < max_jobs_per_position
    /\ total_jobs < max_jobs

\* the exhaustion test letting one more page through
BudgetExhausted_Late(count) == count > MAX_EMPTY_PAGES

\* the test that ends a position after empty pages or errors
BudgetExhausted(count) == count >= MAX_EMPTY_PAGES

\* counters that advance by two
CountEmptyPage_Twice(count) == count + 2
CountPageError_Twice(count) == count + 2

\* the counter after a page without new records, and after a page error
CountEmptyPage(count) == count + 1
CountPageError(count) == count + 1

\* leaving the while loop by break, or by its condition: the for loop goes on
NextPosition ==
    /\ position' = position + 1
    /\ pc' = "for"

\* "if not found_jobs" branch
NotFoundPath ==
    /\ consecutive_empty_pages' = CountEmptyPage(consecutive_empty_pages)
    /\ IF BudgetExhausted(consecutive_empty_pages')
       THEN NextPosition /\ UNCHANGED page
       ELSE page' = page + 1 /\ pc' = "while" /\ UNCHANGED position
    /\ UNCHANGED <<total_jobs, current_position_valid_jobs, returned>>

\* the page found jobs, the global counter left as it was
FoundPath_NoTotal ==
    LET new_listings_count == Len(job_listings) - initial_listing_count IN
    /\ consecutive_empty_pages' = 0
    /\ current_position_valid_jobs' =
           current_position_valid_jobs + new_listings_count
    /\ IF current_position_valid_jobs' >= max_jobs_per_position
       THEN NextPosition /\ UNCHANGED page
       ELSE page' = page + 1 /\ pc' = "while" /\ UNCHANGED position
    /\ UNCHANGED <<total_jobs, returned>>

\* the page found jobs: counters updated from the growth of job_listings
FoundPath ==
    LET new_listings_count == Len(job_listings) - initial_listing_count IN
    /\ consecutive_empty_pages' = 0
    /\ total_jobs' = total_jobs + new_listings_count
    /\ current_position_valid_jobs' =
           current_position_valid_jobs + new_listings_count
    /\ IF current_position_valid_jobs' >= max_jobs_per_position
       THEN NextPosition /\ UNCHANGED page
       ELSE page' = page + 1 /\ pc' = "while" /\ UNCHANGED position
    /\ UNCHANGED returned

\* the except clause moving on to the next page
ErrorPath_Advances ==
    /\ consecutive_empty_pages' = CountPageError(consecutive_empty_pages)
    /\ IF BudgetExhausted(consecutive_empty_pages')
       THEN NextPosition
       ELSE pc' = "while" /\ UNCHANGED position
    /\ page' = page + 1
    /\ UNCHANGED <<total_jobs, current_position_valid_jobs, returned>>

\* "except Exception" of the page loop
ErrorPath ==
    /\ consecutive_empty_pages' = CountPageError(consecutive_empty_pages)
    /\ IF BudgetExhausted(consecutive_empty_pages')
       THEN NextPosition
       ELSE pc' = "while" /\ UNCHANGED position
    /\ UNCHANGED <<page, total_jobs, current_position_valid_jobs, returned>>

Init ==
    /\ max_jobs \in 0..MaxQuota
    /\ max_jobs_per_position \in 0..MaxQuota
    /\ should_analyze \in BOOLEAN
    /\ desired_language \in {EMPTY, FR}
    /\ ~(should_analyze /\ desired_language = EMPTY)
    /\ model \in [ModelTexts -> Labels]
    /\ job_listings = <<>>
    /\ used_tokens = 0
    /\ pc = "for"
    /\ position = 1
    /\ total_jobs = 0
    /\ current_position_valid_jobs = 0
    /\ page = 0
    /\ consecutive_empty_pages = 0
    /\ returned = <<>>
    /\ node_index = 0
    /\ found_valid_jobs = FALSE
    /\ initial_listing_count = 0
    /\ last = NoCard
    /\ indeed = NoCard
    /\ io = <<>>
    /\ streak = NoStreak
    /\ barren = 0
    /\ offset = -1
    /\ spent = 0
    /\ ctor = NotConstructed
    /\ reloaded = NotSaved
    /\ sheets = <<>>

\* for position in self.positions: the next position is started
StartPosition ==
    /\ pc = "for"
    /\ position <= NumPositions
    /\ total_jobs < max_jobs
    /\ current_position_valid_jobs' = 0
    /\ page' = 0
    /\ consecutive_empty_pages' = 0
    /\ pc' = "while"
    /\ io' = <<>>
    /\ streak' = NoStreak
    /\ barren' = 0
    /\ offset' = -1
    /\ UNCHANGED spent
    /\ UNCHANGED <<startup, config, indeed, job_listings, used_tokens, position, total_jobs,
                   returned, parser, last>>

\* the for loop ends (list exhausted, or break on the global quota) and
\* scrape_jobs returns self.job_listings
Return ==
    /\ pc = "for"
    /\ position > NumPositions \/ total_jobs >= max_jobs
    /\ pc' = "done"
    /\ returned' = job_listings
    /\ io' = <<>>
    /\ UNCHANGED <<streak, ledger>>
    /\ UNCHANGED <<startup, config, indeed, job_listings, used_tokens, position, total_jobs,
                   current_position_valid_jobs, page, consecutive_empty_pages,
                   parser, last>>

\* the while condition is false
WhileExit ==
    /\ pc = "while"
    /\ ~WhileCondition
    /\ NextPosition
    /\ io' = <<>>
    /\ UNCHANGED <<streak, ledger>>
    /\ UNCHANGED <<startup, config, indeed, job_listings, used_tokens, total_jobs,
                   current_position_valid_jobs, page, consecutive_empty_pages,
                   returned, parser, last>>

\* the listing page cannot be fetched: fetch_page returns None or '' and
\* parse_job_listings raises ValueError, or the fetch raises something else
PageFetchFails ==
    /\ pc = "while"
    /\ WhileCondition
    /\ \E result \in FailedListResults :
          IF PageHandlerCatches(ListingFetchRaises(result))
          THEN /\ ErrorPath
               /\ io' = RateLimited(result) \o BackOff
               /\ streak' = Extend(KindOf(result), 1)
          ELSE /\ pc' = "raised"
               /\ io' = RateLimited(result)
               /\ streak' = Extend(KindOf(result), 0)
               /\ UNCHANGED <<position, total_jobs, current_position_valid_jobs,
                              page, consecutive_empty_pages, returned>>
    /\ barren' = barren + 1
    /\ offset' = page
    /\ UNCHANGED spent
    /\ UNCHANGED <<startup, config, indeed, job_listings, used_tokens, parser, last>>

\* the listing page holds no card: parse_job_listings returns False
PageEmpty ==
    /\ pc = "while"
    /\ WhileCondition
    /\ NotFoundPath
    /\ io' = RateLimited("page")
    /\ streak' = Extend("empty", 0)
    /\ barren' = barren + 1
    /\ offset' = page
    /\ UNCHANGED spent
    /\ UNCHANGED <<startup, config, indeed, job_listings, used_tokens, parser, last>>

\* the listing page holds cards: the card loop starts. The page holds between
\* 1 and MaxNodes cards; how many is settled when the loop ends (PageReturn).
PageHasNodes ==
    /\ pc = "while"
    /\ WhileCondition
    /\ node_index' = 0
    /\ initial_listing_count' = Len(job_listings)
    /\ found_valid_jobs' = FALSE
    /\ pc' = "nodes"
    /\ io' = RateLimited("page")
    /\ streak' = Mixed
    /\ offset' = page
    /\ UNCHANGED <<barren, spent>>
    /\ UNCHANGED <<startup, config, indeed, job_listings, used_tokens, position, total_jobs,
                   current_position_valid_jobs, page, consecutive_empty_pages,
                   returned, last>>

\* one iteration of "for node in job_nodes", with its except clauses
ParseNodeStep ==
    /\ pc = "nodes"
    /\ node_index < MaxNodes
    /\ \E node \in Nodes :
       \E titled \in {MapNode(node)} :
       \E r \in {ParseNode(node, titled)} :
          /\ AnswersOnlyCalls(node, r.events)
          /\ job_listings' = r.job_listings
          /\ used_tokens' = r.used_tokens
          /\ last' = TraceOf(r)
          /\ spent' = spent + (IF Called(r.events, "analysis")
                               THEN node.token_cost ELSE 0)
          /\ IF r.exc = "none" \/ CardHandlerCatches(r.exc)
             THEN /\ found_valid_jobs' = (found_valid_jobs \/ r.found)
                  /\ node_index' = node_index + 1
                  /\ io' = <<>>
                  /\ UNCHANGED <<driver, barren>>
             ELSE /\ found_valid_jobs' = FALSE
                  /\ node_index' = 0
                  /\ barren' = IF Len(r.job_listings) > initial_listing_count
                               THEN 0 ELSE barren + 1
                  /\ IF PageHandlerCatches(r.exc)
                     THEN ErrorPath /\ io' = BackOff
                     ELSE /\ pc' = "raised"
                          /\ io' = <<>>
                          /\ UNCHANGED <<position, total_jobs,
                                         current_position_valid_jobs, page,
                                         consecutive_empty_pages, returned>>
    /\ initial_listing_count' =
          IF pc' = "nodes" THEN initial_listing_count ELSE 0
    /\ UNCHANGED <<startup, config, indeed, streak, offset>>

\* the card loop is over: parse_job_listings returns found_valid_jobs and
\* scrape_jobs updates its counters
PageReturn ==
    /\ pc = "nodes"
    /\ node_index >= 1
    /\ IF found_valid_jobs THEN FoundPath ELSE NotFoundPath
    /\ node_index' = 0
    /\ found_valid_jobs' = FALSE
    /\ initial_listing_count' = 0
    /\ last' = NoCard
    /\ io' = <<>>
    /\ barren' = IF Len(job_listings) > initial_listing_count THEN 0
                 ELSE barren + 1
    /\ UNCHANGED <<startup, config, indeed, job_listings, used_tokens, streak,
                   offset, spent>>

\* IndeedExtractor.extract_job_details_data is called on a listing. The Indeed
\* extractor shares only the configuration with the LinkedIn crawl, so one call
\* is explored, after the crawl.
IndeedExtractDetails ==
    /\ pc = "done"
    /\ indeed = NoCard
    /\ \E details \in IndeedDetails :
          LET r == IndeedExtractJobDetailsData(
                       [NoJob EXCEPT !.title_lang = Detect(<<"D">>)], details) IN
          indeed' = TraceOf(r)
    /\ UNCHANGED <<startup, config, job_listings, used_tokens, driver, parser, last,
                   journal, ledger>>

Next ==
    \/ StartPosition
    \/ Return
    \/ WhileExit
    \/ PageFetchFails
    \/ PageEmpty
    \/ PageHasNodes
    \/ PageReturn
    \/ ParseNodeStep
    \/ IndeedExtractDetails

Spec == Init /\ [][Next]_vars

\* the crawl is one sequential thread: a step that can be taken is taken
FairSpec == Spec /\ WF_vars(Next)

\* ------------------------------------------------- construction, explored
\* the crawl has not started: its variables hold what __init__ and the first
\* lines of scrape_jobs give them
CrawlNotStarted ==
    /\ max_jobs = 0
    /\ max_jobs_per_position = 0
    /\ should_analyze = FALSE
    /\ desired_language = EMPTY
    /\ model = [t \in ModelTexts |-> EN]
    /\ job_listings = <<>>
    /\ used_tokens = 0
    /\ pc = "new"
    /\ position = 1
    /\ total_jobs = 0
    /\ current_position_valid_jobs = 0
    /\ page = 0
    /\ consecutive_empty_pages = 0
    /\ returned = <<>>
    /\ node_index = 0
    /\ found_valid_jobs = FALSE
    /\ initial_listing_count = 0
    /\ last = NoCard
    /\ indeed = NoCard
    /\ io = <<>>
    /\ streak = NoStreak
    /\ barren = 0
    /\ offset = -1
    /\ spent = 0

ConstructInit ==
    /\ CrawlNotStarted
    /\ reloaded = NotSaved
    /\ sheets = <<>>
    /\ \E c \in CtorInputs :
          ctor = [ state |-> "called", inputs |-> c,
                   linkedin |-> NotConstructed, indeed |-> NotConstructed ]

\* LinkedinExtractor(...) is evaluated
ConstructLinkedin ==
    /\ pc = "new"
    /\ ctor.state = "called"
    /\ ctor.linkedin = NotConstructed
    /\ ctor' = [ctor EXCEPT !.linkedin = LinkedinInit(ctor.inputs)]
    /\ UNCHANGED <<reloaded, sheets, config, job_listings, used_tokens, driver, parser,
                   last, indeed, journal, ledger>>

\* IndeedExtractor(...) is evaluated with the same AI setting and language
ConstructIndeed ==
    /\ pc = "new"
    /\ ctor.state = "called"
    /\ ctor.indeed = NotConstructed
    /\ ctor' = [ctor EXCEPT !.indeed =
                   IndeedInit(Lower(ctor.inputs.USE_AZURE_OPENAI) = TRUE_TEXT,
                              ctor.inputs.JOB_DESIRED_LANGUAGE)]
    /\ UNCHANGED <<reloaded, sheets, config, job_listings, used_tokens, driver, parser,
                   last, indeed, journal, ledger>>

ConstructNext ==
    \/ ConstructLinkedin
    \/ ConstructIndeed

ConstructSpec == ConstructInit /\ [][ConstructNext]_vars

\* ------------------------------------------------------ the JSON snapshot
IsDigit(c) == c \in {"0","1","2","3","4","5","6","7","8","9"}

\* str.replace('Z', '+00:00')
RECURSIVE ReplaceZ(_)
ReplaceZ(s) ==
    IF s = <<>> THEN <<>>
    ELSE (IF Head(s) = "Z" THEN <<"+","0","0",":","0","0">> ELSE <<Head(s)>>)
         \o ReplaceZ(Tail(s))

MIDNIGHT == <<"T","0","0",":","0","0",":","0","0">>
ISO_DATETIME == ISO_DATE \o MIDNIGHT

\* YYYY-MM-DD
IsDateText(s) ==
    /\ Len(s) = 10
    /\ \A i \in {1, 2, 3, 4, 6, 7, 9, 10} : IsDigit(s[i])
    /\ s[5] = "-" /\ s[8] = "-"

\* THH:MM:SS
IsTimeText(s) ==
    /\ Len(s) = 9
    /\ s[1] = "T"
    /\ \A i \in {2, 3, 5, 6, 8, 9} : IsDigit(s[i])
    /\ s[4] = ":" /\ s[7] = ":"

\* the texts datetime.fromisoformat accepts: a date, optionally with a time
IsIsoFormat(s) ==
    \/ IsDateText(s)
    \/ Len(s) = 19 /\ IsDateText(SubSeq(s, 1, 10)) /\ IsTimeText(SubSeq(s, 11, 19))

\* datetime.fromisoformat(s), for a text it accepts: a date alone is midnight
FromIsoFormat(s) ==
    DateTimeValue(IF Len(s) = 10 THEN s \o MIDNIGHT ELSE s)

\* json.dump with DateTimeEncoder: a datetime is written as its isoformat()
\* text, None as null, a str as itself
JsonValue(v) ==
    IF v.type = "datetime" THEN StrValue(v.value) ELSE v

\* job.__dict__ as written to the file
JsonDict(job) == [job EXCEPT !.posted_time = JsonValue(job.posted_time)]

\* save_jobs_to_json: the file holds one dictionary per job
SaveJobsToJson(jobs) == [i \in DOMAIN jobs |-> JsonDict(jobs[i])]

\* "if job_dict.get('posted_time')": neither null nor ''
Truthy(v) == v.type # "None" /\ v.value # EMPTY

\* the conversion of one dictionary's posted_time raises ValueError
ConversionRaises(job_dict) ==
    /\ Truthy(job_dict.posted_time)
    /\ ~IsIsoFormat(ReplaceZ(job_dict.posted_time.value))

\* one dictionary of the file becomes a record: posted_time converted when
\* truthy, then only the data class's fields kept, the others defaulted
LoadRecord(job_dict) ==
    LET converted ==
            IF Truthy(job_dict.posted_time)
            THEN [job_dict EXCEPT !.posted_time =
                     FromIsoFormat(ReplaceZ(job_dict.posted_time.value))]
            ELSE job_dict
    IN  [ field_name \in DOMAIN NoJob |->
            IF field_name \in DOMAIN converted THEN converted[field_name]
            ELSE NoJob[field_name] ]

\* load_jobs_from_json: a ValueError anywhere in the loop returns []
LoadJobsFromJson(job_dicts) ==
    IF \E i \in DOMAIN job_dicts : ConversionRaises(job_dicts[i])
    THEN <<>>
    ELSE [i \in DOMAIN job_dicts |-> LoadRecord(job_dicts[i])]

\* cards whose mapping gives the records a snapshot can hold
SnapshotCards ==
    { node \in [ href : Hrefs \ {EMPTY}, title : {<<"D">>, <<" ","d"," ">>},
                 company : {<<"X">>}, detail : {"page"},
                 description : {<<"j","o","b">>}, fail : {"none"},
                 token_cost : {0}, listdate : PostedTimeTexts ] : TRUE }

\* records as parse_job_listings builds them, and the same records holding
\* the declared Optional[datetime] instead of the card's text
SavedRecords ==
    { MapNode(node) : node \in SnapshotCards }
    \cup { [MapNode(node) EXCEPT !.posted_time = v] :
             node \in SnapshotCards, v \in {NoneValue, DateTimeValue(ISO_DATETIME)} }

RECURSIVE SeqsUpTo(_, _)
SeqsUpTo(S, n) ==
    IF n = 0 THEN { <<>> }
    ELSE LET shorter == SeqsUpTo(S, n - 1)
         IN  shorter \cup { Append(q, x) : q \in shorter, x \in S }

\* a crawl has returned its collection; nothing is written yet
SnapshotInit ==
    /\ max_jobs = 0
    /\ max_jobs_per_position = 0
    /\ should_analyze = FALSE
    /\ desired_language = EMPTY
    /\ model = [t \in ModelTexts |-> EN]
    /\ job_listings \in SeqsUpTo(SavedRecords, MaxSaved)
    /\ used_tokens = 0
    /\ pc = "done"
    /\ position = NumPositions + 1
    /\ total_jobs = 0
    /\ current_position_valid_jobs = 0
    /\ page = 0
    /\ consecutive_empty_pages = 0
    /\ returned = job_listings
    /\ node_index = 0
    /\ found_valid_jobs = FALSE
    /\ initial_listing_count = 0
    /\ last = NoCard
    /\ indeed = NoCard
    /\ io = <<>>
    /\ streak = NoStreak
    /\ barren = 0
    /\ offset = -1
    /\ spent = 0
    /\ ctor = NotConstructed
    /\ reloaded = NotSaved
    /\ sheets = <<>>

\* save_jobs_to_json(jobs)
SaveJobs ==
    /\ pc = "done"
    /\ reloaded.state = "none"
    /\ reloaded' = [ state |-> "saved", file |-> SaveJobsToJson(returned) ]
    /\ UNCHANGED <<ctor, sheets, config, job_listings, used_tokens, driver, parser,
                   last, indeed, journal, ledger>>

\* load_jobs_from_json() on the file just written
LoadJobs ==
    /\ pc = "done"
    /\ reloaded.state = "saved"
    /\ reloaded' = [ state |-> "loaded", file |-> reloaded.file,
                     jobs |-> LoadJobsFromJson(reloaded.file) ]
    /\ UNCHANGED <<ctor, sheets, config, job_listings, used_tokens, driver, parser,
                   last, indeed, journal, ledger>>

SnapshotNext ==
    \/ SaveJobs
    \/ LoadJobs

SnapshotSpec == SnapshotInit /\ [][SnapshotNext]_vars

\* ------------------------------------------------- the language detector
\* texts handed to the detector: blank ones and ones the model is asked about
BlankTexts == { EMPTY, <<" ">>, <<" "," ">> }
SpokenTexts == { HELLO_WORLD, <<"D">>, <<"j","o","b">> }
DetectInputs == BlankTexts \cup SpokenTexts

\* scores[0] of a prediction, in hundredths
Scores == { 80, 99 }

\* the texts detect hands to model.predict
DetectQueries(text) ==
    IF Strip(text) = EMPTY THEN <<>> ELSE <<HELLO_WORLD>>

\* LanguageDetector.detect_with_confidence, score being the model's scores[0]
DetectWithConfidence(text, score) ==
    IF Strip(text) = EMPTY THEN <<UNKNOWN, 0>> ELSE <<model[text], score>>

\* the texts detect_with_confidence hands to model.predict
DetectWithConfidenceQueries(text) ==
    IF Strip(text) = EMPTY THEN <<>> ELSE <<text>>

NotDetected == [ called |-> FALSE ]

\* a detector is loaded with some model; nothing is detected yet. The result
\* of detect is kept in last, that of detect_with_confidence in indeed.
DetectInit ==
    /\ max_jobs = 0
    /\ max_jobs_per_position = 0
    /\ should_analyze = FALSE
    /\ desired_language = EMPTY
    /\ model \in [SpokenTexts -> Labels]
    /\ job_listings = <<>>
    /\ used_tokens = 0
    /\ pc = "new"
    /\ position = 1
    /\ total_jobs = 0
    /\ current_position_valid_jobs = 0
    /\ page = 0
    /\ consecutive_empty_pages = 0
    /\ returned = <<>>
    /\ node_index = 0
    /\ found_valid_jobs = FALSE
    /\ initial_listing_count = 0
    /\ last = NotDetected
    /\ indeed = NotDetected
    /\ io = <<>>
    /\ streak = NoStreak
    /\ barren = 0
    /\ offset = -1
    /\ spent = 0
    /\ ctor = NotConstructed
    /\ reloaded = NotSaved
    /\ sheets = <<>>

\* detector.detect(text)
DetectStep ==
    /\ pc = "new"
    /\ ~last.called
    /\ \E text \in DetectInputs :
          last' = [ called |-> TRUE, text |-> text, language |-> Detect(text),
                    queries |-> DetectQueries(text) ]
    /\ UNCHANGED <<startup, config, job_listings, used_tokens, driver, parser,
                   indeed, journal, ledger>>

\* detector.detect_with_confidence(text)
DetectWithConfidenceStep ==
    /\ pc = "new"
    /\ ~indeed.called
    /\ \E text \in DetectInputs, score \in Scores :
          LET r == DetectWithConfidence(text, score) IN
          indeed' = [ called |-> TRUE, text |-> text, language |-> r[1],
                      confidence |-> r[2],
                      queries |-> DetectWithConfidenceQueries(text) ]
    /\ UNCHANGED <<startup, config, job_listings, used_tokens, driver, parser,
                   last, journal, ledger>>

DetectNext ==
    \/ DetectStep
    \/ DetectWithConfidenceStep

DetectSpec == DetectInit /\ [][DetectNext]_vars

\* ---------------------------------------------------- the spreadsheet
\* a Python list of str, as opposed to a str
ListValue(items) == [ type |-> "list", value |-> items ]

\* what iterating over the value yields: the items of a list, the characters
\* of a str
Items(v) ==
    IF v.type = "list" THEN v.value
    ELSE [i \in DOMAIN v.value |-> <<v.value[i]>>]

\* ', '.join(items)
RECURSIVE Join(_)
Join(items) ==
    IF items = <<>> THEN EMPTY
    ELSE IF Len(items) = 1 THEN items[1]
    ELSE items[1] \o <<",", " ">> \o Join(Tail(items))

\* values of technologies_required an analysis can leave on a record
TechnologyLists == { <<>>, << <<"p","y">> >>, << <<"p","y">>, <<"g","o">> >> }

\* records of a returned collection, technologies_required held as the list
\* the data class declares
ExportRecords ==
    { [NewJobListing(title, <<"w","-","1","?","t">>, <<"X">>, <<"1">>)
          EXCEPT !.technologies_required = ListValue(technologies)] :
        title \in {<<"D">>, <<"Q">>}, technologies \in TechnologyLists }

\* JobsExcelExporter.export_jobs, lines 71-77: vars(job) is the record's own
\* dictionary, so the joined text is stored on the record itself
JoinedInPlace(job) ==
    [job EXCEPT !.technologies_required =
        StrValue(Join(Items(job.technologies_required)))]

\* a crawl has returned its collection; nothing is exported yet
ExportInit ==
    /\ max_jobs = 0
    /\ max_jobs_per_position = 0
    /\ should_analyze = FALSE
    /\ desired_language = EMPTY
    /\ model = [t \in ModelTexts |-> EN]
    /\ job_listings \in SeqsUpTo(ExportRecords, MaxSaved)
    /\ used_tokens = 0
    /\ pc = "done"
    /\ position = NumPositions + 1
    /\ total_jobs = 0
    /\ current_position_valid_jobs = 0
    /\ page = 0
    /\ consecutive_empty_pages = 0
    /\ returned = job_listings
    /\ node_index = 0
    /\ found_valid_jobs = FALSE
    /\ initial_listing_count = 0
    /\ last = NoCard
    /\ indeed = NoCard
    /\ io = <<>>
    /\ streak = NoStreak
    /\ barren = 0
    /\ offset = -1
    /\ spent = 0
    /\ ctor = NotConstructed
    /\ reloaded = NotSaved
    /\ sheets = <<>>

\* JobsExcelExporter.export_jobs(jobs)
JobsExportJobs ==
    /\ pc = "done"
    /\ Len(sheets) < MaxExports
    /\ job_listings' = [i \in DOMAIN job_listings |->
                           JoinedInPlace(job_listings[i])]
    /\ sheets' = Append(sheets,
          [ exporter |-> "JobsExcelExporter",
            technologies_required |->
                [i \in DOMAIN job_listings |->
                    job_listings'[i].technologies_required] ])
    /\ UNCHANGED <<ctor, reloaded, config, used_tokens, driver, parser, last,
                   indeed, journal, ledger>>

\* LinkedinExcelExporter.export_jobs(jobs): the rows are the records'
\* dictionaries as they are
LinkedinExportJobs ==
    /\ pc = "done"
    /\ Len(sheets) < MaxExports
    /\ sheets' = Append(sheets,
          [ exporter |-> "LinkedinExcelExporter",
            technologies_required |->
                [i \in DOMAIN job_listings |->
                    job_listings[i].technologies_required] ])
    /\ UNCHANGED <<ctor, reloaded, config, job_listings, used_tokens, driver,
                   parser, last, indeed, journal, ledger>>

ExportNext ==
    \/ JobsExportJobs
    \/ LinkedinExportJobs

ExportSpec == ExportInit /\ [][ExportNext]_vars

\* ----------------------------------------------------- enrichment alone
\* description texts handed to enrichment and what the collaborators do;
\* detect can only raise inside model.predict, which a blank text never
\* reaches
EnrichInputs ==
    { d \in [ description : { EMPTY, <<" ">>, <<" "," ">>, <<"j","o","b">>,
                              <<"j"," "," ","b">> },
              fail : { "none", "detect_desc", "ai" },
              token_cost : TokenCosts ] :
        d.fail = "detect_desc" => Strip(d.description) # EMPTY }

\* values of JOB_DESIRED_LANGUAGE: unset, a language, the word detect uses
\* for blank text
DesiredLanguages == { EMPTY, FR, UNKNOWN }

\* the candidate handed to enrichment
Candidate == [NoJob EXCEPT !.title_lang = Detect(<<"D">>)]

NotEnriched == [ called |-> FALSE ]

\* what an enrichment call did
EnrichmentOf(description, r) ==
    [ called |-> TRUE, description |-> description, exc |-> r.exc,
      events |-> r.events, description_lang |-> r.job.description_lang ]

\* an extractor is constructed with some configuration; nothing is enriched
\* yet. The populate_job_details call is kept in last, the
\* extract_job_details_data call in indeed.
EnrichInit ==
    /\ max_jobs = 0
    /\ max_jobs_per_position = 0
    /\ should_analyze \in BOOLEAN
    /\ desired_language \in DesiredLanguages
    /\ ~(should_analyze /\ desired_language = EMPTY)
    /\ model \in [ModelTexts -> Labels]
    /\ job_listings = <<>>
    /\ used_tokens = 0
    /\ pc = "new"
    /\ position = 1
    /\ total_jobs = 0
    /\ current_position_valid_jobs = 0
    /\ page = 0
    /\ consecutive_empty_pages = 0
    /\ returned = <<>>
    /\ node_index = 0
    /\ found_valid_jobs = FALSE
    /\ initial_listing_count = 0
    /\ last = NotEnriched
    /\ indeed = NotEnriched
    /\ io = <<>>
    /\ streak = NoStreak
    /\ barren = 0
    /\ offset = -1
    /\ spent = 0
    /\ ctor = NotConstructed
    /\ reloaded = NotSaved
    /\ sheets = <<>>

\* LinkedinExtractor.populate_job_details(job, job_description, soup), the
\* description being the stripped text of the description element
PopulateStep ==
    /\ pc = "new"
    /\ ~last.called
    /\ \E d \in EnrichInputs :
       \E r \in {PopulateJobDetails(Candidate, GetText(d.description), d)} :
          /\ last' = EnrichmentOf(GetText(d.description), r)
          /\ used_tokens' = r.used_tokens
          /\ spent' = spent + (IF Called(r.events, "analysis")
                               THEN d.token_cost ELSE 0)
    /\ UNCHANGED <<startup, config, job_listings, driver, parser, indeed,
                   journal, barren, offset>>

\* IndeedExtractor.extract_job_details_data(job, job_details_data)
ExtractJobDetailsStep ==
    /\ pc = "new"
    /\ ~indeed.called
    /\ \E d \in EnrichInputs :
       \E r \in {IndeedExtractJobDetailsData(Candidate, d)} :
          indeed' = EnrichmentOf(HtmlToText(d.description), r)
    /\ UNCHANGED <<startup, config, job_listings, used_tokens, driver, parser,
                   last, journal, ledger>>

EnrichNext ==
    \/ PopulateStep
    \/ ExtractJobDetailsStep

EnrichSpec == EnrichInit /\ [][EnrichNext]_vars

TypeOK ==
    /\ pc \in {"new", "for", "while", "nodes", "done", "raised"}
    /\ position \in 1..(NumPositions + 1)
    /\ node_index \in 0..MaxNodes
    /\ consecutive_empty_pages \in 0..MAX_EMPTY_PAGES

\* ------------------------------------------------------------------ claims
\* records admitted since the current position was started
AdmittedInPosition ==
    IF pc = "nodes"
    THEN current_position_valid_jobs + Len(job_listings) - initial_listing_count
    ELSE current_position_valid_jobs

\* C1: the result collection never holds more than max_jobs records, at any
\* point of the crawl and at return.
C1_QuotaCeiling == Len(job_listings) <= max_jobs

\* C2: the number of records admitted while a position is crawled never
\* exceeds max_jobs_per_position, and current_position_valid_jobs never
\* passes it (it ends at the quota, not above).
C2_PerPositionCeiling ==
    pc \in {"while", "nodes", "for"} =>
        /\ AdmittedInPosition <= max_jobs_per_position
        /\ current_position_valid_jobs <= max_jobs_per_position

\* position of the first occurrence of a call in a trace, 0 when absent
IndexOf(events, call) ==
    IF Called(events, call)
    THEN CHOOSE i \in DOMAIN events :
             events[i] = call /\ \A j \in DOMAIN events : events[j] = call => i <= j
    ELSE 0

\* C3: with no desired language configured neither language check rejects a
\* candidate: a card whose title language was detected goes on to the detail
\* fetch, and a card whose enrichment returned is appended.
C3_NoLanguageNoRejection ==
    desired_language = EMPTY =>
        /\ Called(last.events, "title_lang") => Called(last.events, "fetch_detail")
        /\ Called(last.events, "description_lang") /\ last.exc = "none"
              => Called(last.events, "append")

\* C4: for a card whose detected title language differs, case-insensitively,
\* from the desired language, the detail page is never fetched and
\* populate_job_details is never called.
C4_TitleGate ==
    Called(last.events, "title_lang") /\ Lower(last.title_lang) # desired_language
        => /\ ~Called(last.events, "fetch_detail")
           /\ ~Called(last.events, "populate")

\* a card with a title in another language than the desired one was processed
\* by a crawl whose language model answers the desired language
C4_Witness ==
    /\ pc = "nodes"
    /\ Lower(model[HELLO_WORLD]) = desired_language
    /\ Called(last.events, "title_lang")
    /\ Lower(last.title_lang) # desired_language

AIGated(trace) ==
    Called(trace.events, "extract_job_data") =>
        /\ should_analyze
        /\ Called(trace.events, "description_lang")
        /\ IndexOf(trace.events, "description_lang")
               < IndexOf(trace.events, "extract_job_data")
        /\ Lower(trace.description_lang) = desired_language

\* C5: extract_job_data is invoked for a record only after its description
\* language was detected, and only if AI analysis is enabled and that language
\* equals the desired language (LinkedIn and Indeed); with AI analysis
\* disabled it is never invoked.
C5_AIGate == AIGated(last) /\ AIGated(indeed)

\* the AI was invoked by both extractors: by the Indeed one just now, and by
\* the LinkedIn crawl, which spent tokens and admitted the analysed record
C5_Witness ==
    /\ Called(indeed.events, "extract_job_data")
    /\ used_tokens > 0
    /\ \E i \in DOMAIN job_listings : job_listings[i].experience_years_needed > 0

\* C6: when the AI call raises for a candidate whose title and description
\* languages equal the desired language, the record is still admitted, with
\* its AI fields at their pre-call values.
C6_AIFailureKeepsRecord ==
    /\ Called(last.events, "extract_job_data")
    /\ ~Called(last.events, "analysis")
    /\ Lower(last.title_lang) = desired_language
    /\ Lower(last.description_lang) = desired_language
    => /\ Called(last.events, "append")
       /\ job_listings # <<>>
       /\ job_listings[Len(job_listings)].required_studies = EMPTY
       /\ job_listings[Len(job_listings)].technologies_required = <<>>
       /\ job_listings[Len(job_listings)].experience_years_needed = 0
       /\ job_listings[Len(job_listings)].salary_offered = 0

\* C7: scrape_jobs terminates and returns the collection accumulated so far,
\* whatever the fetch, language-detection and AI collaborators do.
C7_Terminates ==
    /\ [](pc # "raised")
    /\ <>(pc = "done" /\ returned = job_listings)

\* the crawl returned records although its last position was given up after
\* MAX_EMPTY_PAGES empty or failed pages
C7_Witness ==
    /\ pc = "done"
    /\ returned # <<>>
    /\ consecutive_empty_pages = MAX_EMPTY_PAGES

\* a card that was skipped for a failure: an exception, a missing URL or a
\* detail fetch that returned nothing
FailedCard(trace) ==
    \/ trace.exc # "none"
    \/ Called(trace.events, "no_url")
    \/ trace.events # <<>> /\ trace.events[Len(trace.events)] = "fetch_detail"

\* C8: a failure while one card is processed skips only that card: the card
\* loop goes on with the next card and the records admitted before stay.
C8_CardFailureSkipsOnlyCard ==
    [][pc = "nodes" /\ last' # NoCard /\ FailedCard(last')
         => /\ pc' = "nodes"
            /\ node_index' = node_index + 1
            /\ job_listings' = job_listings
            /\ found_valid_jobs' = found_valid_jobs]_vars

\* a card failed with an exception after another card of the same page had
\* been admitted
C8_Witness ==
    /\ pc = "nodes"
    /\ FailedCard(last)
    /\ last.exc # "none"
    /\ Len(job_listings) > initial_listing_count
    /\ found_valid_jobs

SamePair(a, b) ==
    /\ Lower(Strip(a.title)) = Lower(Strip(b.title))
    /\ Lower(Strip(a.company)) = Lower(Strip(b.company))

\* C9: no two records of the collection have the same job_id, and no two have
\* the same (title, company) pair compared case-insensitively after trimming.
C9_NoDuplicates ==
    \A i, j \in DOMAIN job_listings :
        i # j => /\ job_listings[i].job_id # job_listings[j].job_id
                 /\ ~SamePair(job_listings[i], job_listings[j])

\* a card was served again (or one like it) and skipped as a duplicate while
\* the collection holds two records
C9_Witness ==
    /\ Len(job_listings) = 2
    /\ Called(last.events, "duplicate")

\* C10: the job_id test matches only non-empty job_ids: a card whose derived
\* job_id is empty and whose (title, company) pair differs from every admitted
\* record's is not treated as a duplicate.
C10_EmptyIdNotDuplicate ==
    \A node \in Nodes :
        LET job_id == JobIdOfUrl(GetHref(node.href))
            job_title == GetText(node.title)
            job_company == GetText(node.company)
        IN  /\ GetHref(node.href) # EMPTY
            /\ job_id = EMPTY
            /\ \A i \in DOMAIN job_listings :
                   ~SamePair([title |-> job_title, company |-> job_company],
                             job_listings[i])
            => ~IsDuplicate(job_id, job_title, job_company)

\* the position is left after exactly MAX_EMPTY_PAGES fetches that all ended
\* the given way, nothing is raised, and the next position, if any, is started
CeilingOf(kind) ==
    streak.kind = kind =>
        /\ streak.fetches \in 1..MAX_EMPTY_PAGES
        /\ pc \in {"while", "for", "done"}
        /\ pc = "while" => streak.fetches < MAX_EMPTY_PAGES
        /\ pc \in {"for", "done"} => streak.fetches = MAX_EMPTY_PAGES
        /\ pc = "for" /\ position <= NumPositions => total_jobs < max_jobs

\* C11: when every listing page of a position yields zero cards, exactly
\* MAX_EMPTY_PAGES listing pages are fetched for it; the position is then
\* abandoned and the next one, if any, is started; nothing is raised.
C11_EmptyPagesCeiling ==
    /\ CeilingOf("empty")
    /\ streak.kind = "empty" => streak.backoffs = 0

\* the first position was abandoned after MAX_EMPTY_PAGES empty pages and
\* another position is left to crawl
C11_Witness ==
    /\ pc = "for"
    /\ position \in 2..NumPositions
    /\ streak.kind = "empty"
    /\ streak.fetches = MAX_EMPTY_PAGES

\* C12: when every listing-page fetch of a position fails, exactly
\* MAX_EMPTY_PAGES attempts are made, each followed by the back-off sleep;
\* the crawl then moves on to the next position and nothing is raised.
C12_ErrorBackOff ==
    /\ CeilingOf("failed")
    /\ streak.kind = "failed" => streak.backoffs = streak.fetches
    /\ Called(io, "fetch_page") /\ io[3] \in {"none", "raise"}
          => io[Len(io)] = "sleep_long"

\* the first position was given up after MAX_EMPTY_PAGES failed fetches, each
\* followed by its back-off sleep, and another position is left to crawl
C12_Witness ==
    /\ pc = "for"
    /\ position \in 2..NumPositions
    /\ streak.kind = "failed"
    /\ streak.fetches = MAX_EMPTY_PAGES
    /\ streak.backoffs = MAX_EMPTY_PAGES
    /\ io = RateLimited("none") \o BackOff

\* C13: the records main loaded from the snapshot are in the extractor's
\* collection once it is constructed: the construction main performs returns
\* an extractor, and its job_listings holds every loaded job_id.
C13_SnapshotSeeded ==
    /\ ctor.state = "called"
    /\ ctor.inputs.caller = "main"
    /\ ctor.linkedin # NotConstructed
    => /\ ctor.linkedin.raised # "TypeError"
       /\ ctor.linkedin.raised = "none" =>
             \A i \in DOMAIN ctor.inputs.linkedin_jobs :
                 \E j \in DOMAIN ctor.linkedin.job_listings :
                     ctor.linkedin.job_listings[j].job_id
                         = ctor.inputs.linkedin_jobs[i].job_id

\* the configuration holds a value that is no key of its enumeration
InvalidEnum(c) ==
    \/ EnvOr(c.JOB_TYPE, c.type) \notin DOMAIN job_type_dict
    \/ c.experience_level \notin DOMAIN experience_level_dict
    \/ c.publish_timespan \notin DOMAIN publish_timespan_dict

\* AI analysis is enabled and no desired language is given
AnalysisWithoutLanguage(c) ==
    /\ Lower(c.USE_AZURE_OPENAI) = TRUE_TEXT
    /\ c.JOB_DESIRED_LANGUAGE = EMPTY

RaisedValueError(outcome) ==
    /\ outcome.raised = "ValueError"
    /\ ~outcome.analyzer_created
    /\ outcome.fetches = 0

\* C14: a collection of N records written by save_jobs_to_json and read back
\* by load_jobs_from_json comes back as N records with the same job_id, title
\* and posted_time.
C14_RoundTrip ==
    reloaded.state = "loaded" =>
        /\ Len(reloaded.jobs) = Len(returned)
        /\ \A i \in DOMAIN returned :
              /\ reloaded.jobs[i].job_id = returned[i].job_id
              /\ reloaded.jobs[i].title = returned[i].title
              /\ reloaded.jobs[i].posted_time = returned[i].posted_time

\* a step of the card loop whose card ended at the detail-page fetch: the
\* fetch returned nothing
DetailFetchFailed ==
    /\ pc = "nodes"
    /\ node_index' # node_index
    /\ last'.events # <<>>
    /\ last'.events[Len(last'.events)] = "fetch_detail"

\* C15: a detail-page fetch that fails increments the consecutive empty/error
\* counter and is followed by the long back-off sleep.
C15_DetailFailureBacksOff ==
    [][DetailFetchFailed =>
          /\ consecutive_empty_pages' = consecutive_empty_pages + 1
          /\ Called(io', "sleep_long")]_vars

\* a pass of the while body whose listing fetch succeeded with an empty body
EmptyBodyFetched ==
    /\ pc = "while"
    /\ Called(io', "fetch_page")
    /\ io'[3] = "empty"

\* C16: a listing fetch that succeeds with an empty body is handled as an
\* empty page (no back-off sleep, the page offset advances unless the position
\* is given up), not as a failure.
C16_EmptyBodyIsEmptyPage ==
    [][EmptyBodyFetched =>
          /\ ~Called(io', "sleep_long")
          /\ pc' = "while" => page' = page + 1]_vars

C18_EnumerationsAccepted ==
    /\ ctor.state = "called"
    /\ BindsArguments(ctor.inputs)
    /\ ctor.linkedin # NotConstructed
    /\ ~InvalidEnum(ctor.inputs)
    /\ ~AnalysisWithoutLanguage(ctor.inputs)
    => ctor.linkedin.raised = "none"

\* a pass of the while body that fetches a listing page
ListingFetched ==
    /\ pc = "while"
    /\ Called(io', "fetch_page")

\* C19: once the admitted records have reached the global quota, no listing
\* page is fetched any more and no further position is started.
C19_QuotaStopsFetching ==
    [][Len(job_listings) >= max_jobs =>
          /\ ~ListingFetched
          /\ ~(pc = "for" /\ pc' = "while")]_vars

\* the crawl returned with the quota reached and a position never started
C19_Witness ==
    /\ pc = "done"
    /\ max_jobs > 0
    /\ Len(job_listings) >= max_jobs
    /\ position <= NumPositions

\* a step that ends in the except clause of the page loop
PageErrorHandled ==
    \/ /\ pc = "while"
       /\ Called(io', "fetch_page")
       /\ io'[3] \in FailedListResults
       /\ pc' # "raised"
    \/ /\ pc = "nodes"
       /\ last'.exc # "none"
       /\ ~CardHandlerCatches(last'.exc)
       /\ pc' # "raised"

\* C20: every listing fetch comes right after the short rate-limit sleep; a
\* pass that ends in an error ends with the long back-off sleep, so that the
\* retry is preceded by both.
C20_RateLimit ==
    [][/\ ListingFetched => io'[1] = "sleep" /\ io'[2] = "fetch_page"
       /\ PageErrorHandled => io'[Len(io')] = "sleep_long"
       /\ ListingFetched /\ streak.kind = "failed" /\ pc' # "raised" =>
              /\ io = RateLimited(io[3]) \o BackOff
              /\ SubSeq(io', 1, 2) = <<"sleep", "fetch_page">>]_vars

\* a failed fetch was retried: the second attempt of a position has been made
\* after the back-off of the first
C20_Witness ==
    /\ streak.kind = "failed"
    /\ streak.fetches = 2
    /\ streak.backoffs = 2
    /\ io = RateLimited("none") \o BackOff

\* C21: for a text that is empty or only whitespace, detect returns "unknown"
\* and detect_with_confidence returns ("unknown", 0.0), neither asking the
\* model.
C21_BlankIsUnknown ==
    /\ last.called /\ Strip(last.text) = EMPTY =>
          last.language = UNKNOWN /\ last.queries = <<>>
    /\ indeed.called /\ Strip(indeed.text) = EMPTY =>
          /\ indeed.language = UNKNOWN
          /\ indeed.confidence = 0
          /\ indeed.queries = <<>>

\* both functions have been called on whitespace-only texts
C21_Witness ==
    /\ last.called /\ last.text = <<" "," ">>
    /\ indeed.called /\ indeed.text = <<" ">>

\* C22: for a non-blank text, detect returns the language the model predicts
\* for that text, which is the language detect_with_confidence returns for it.
C22_DetectUsesText ==
    /\ last.called /\ Strip(last.text) # EMPTY =>
          last.language = model[last.text] /\ last.queries = <<last.text>>
    /\ last.called /\ indeed.called /\ last.text = indeed.text =>
          last.language = indeed.language

\* the position is left because a quota is reached
QuotaReached ==
    \/ current_position_valid_jobs >= max_jobs_per_position
    \/ total_jobs >= max_jobs

\* C23: empty pages and page errors feed one consecutive counter, which is the
\* number of pages in a row of the position that admitted nothing: it is 0
\* when a position starts, 0 after a page that admitted a record, and the
\* position is abandoned for exhaustion exactly when it reaches
\* MAX_EMPTY_PAGES, whatever the mix of empty pages and errors.
C23_SharedCounter ==
    /\ [](consecutive_empty_pages = barren)
    /\ [][/\ pc = "for" /\ pc' = "while" => consecutive_empty_pages' = 0
          /\ barren' = barren + 1 =>
                /\ pc' = "for" <=> barren' = MAX_EMPTY_PAGES
                /\ pc' = "for" => position' = position + 1
          /\ pc \in {"while", "nodes"} /\ pc' = "for"
                /\ barren' < MAX_EMPTY_PAGES => QuotaReached']_vars

\* a position was abandoned after MAX_EMPTY_PAGES pages without admission that
\* were not all of one kind, and another position is left
C23_Witness ==
    /\ pc = "for"
    /\ position \in 2..NumPositions
    /\ barren = MAX_EMPTY_PAGES
    /\ streak = Mixed
    /\ Called(io, "sleep_long")

C25_AppendOnly ==
    [][/\ Len(job_listings') >= Len(job_listings)
       /\ SubSeq(job_listings', 1, Len(job_listings)) = job_listings]_vars

\* the last position was given up after errors while the collection held a
\* record admitted before
C25_Witness ==
    /\ pc = "for"
    /\ position = NumPositions + 1
    /\ barren = MAX_EMPTY_PAGES
    /\ Called(io, "sleep_long")
    /\ Len(job_listings) >= 1

\* the calls of an iteration that enriched its candidate completely
EnrichmentCompleted(events) ==
    /\ Called(events, "detect_title")
    /\ Called(events, "title_lang")
    /\ Called(events, "fetch_detail")
    /\ Called(events, "detail_page")
    /\ Called(events, "populate")
    /\ Called(events, "description_lang")

\* C26: every record of the collection was admitted by an iteration that
\* detected the title language, fetched the detail page, and saw
\* populate_job_details return; its title_lang and description_lang equal the
\* desired language, case ignored.
C26_OnlyCompleteRecords ==
    /\ [](\A i \in DOMAIN job_listings :
            /\ Lower(job_listings[i].title_lang) = Lower(desired_language)
            /\ Lower(job_listings[i].description_lang) = Lower(desired_language))
    /\ [][Len(job_listings') > Len(job_listings) =>
            /\ pc = "nodes"
            /\ Len(job_listings') = Len(job_listings) + 1
            /\ last'.exc = "none"
            /\ EnrichmentCompleted(last'.events)
            /\ last'.events[Len(last'.events)] = "append"
            /\ job_listings'[Len(job_listings')].title_lang = last'.title_lang
            /\ job_listings'[Len(job_listings')].description_lang =
                  last'.description_lang]_vars

\* a record was admitted whose detected languages match the desired one only
\* when case is ignored
C26_Witness ==
    /\ Len(job_listings) >= 1
    /\ desired_language = FR
    /\ job_listings[1].title_lang = FR_UPPER
    /\ job_listings[1].description_lang = FR_UPPER
    /\ Called(last.events, "append")

\* C27: used_tokens is the sum of the token_cost of the analyses returned so
\* far: 0 at the start, never decreasing, changed only by an iteration whose
\* AI call returned.
C27_TokenLedger ==
    /\ [](used_tokens = spent)
    /\ [][/\ used_tokens' >= used_tokens
          /\ used_tokens' # used_tokens =>
                pc = "nodes" /\ Called(last'.events, "analysis")]_vars

\* an analysis was paid for, and the AI call of a later card failed
C27_Witness ==
    /\ used_tokens > 0
    /\ last.exc # "none"
    /\ Called(last.events, "extract_job_data")
    /\ ~Called(last.events, "analysis")

\* the record holds the values it held when the crawl returned it
SameRecord(now, before) ==
    /\ now.technologies_required.type = before.technologies_required.type
    /\ now.technologies_required.value = before.technologies_required.value
    /\ now.title = before.title
    /\ now.url = before.url
    /\ now.company = before.company
    /\ now.job_id = before.job_id

\* C28: export_jobs leaves every record as it was, technologies_required
\* still being the same list of strings, so that two exports of a collection
\* by the same exporter write the same values.
C28_ExportLeavesRecords ==
    /\ Len(job_listings) = Len(returned)
    /\ \A i \in DOMAIN returned : SameRecord(job_listings[i], returned[i])
    /\ \A m, n \in DOMAIN sheets :
          sheets[m].exporter = sheets[n].exporter =>
              sheets[m].technologies_required = sheets[n].technologies_required

\* the enrichment call was made on a blank description
BlankDescription(call) ==
    call.called /\ Strip(call.description) = EMPTY

\* C29: when the description text is empty or only whitespace,
\* description_lang is set to "unknown" and the AI is not invoked, whatever
\* the AI flag and the desired language.
C29_BlankDescriptionSkipsAI ==
    /\ BlankDescription(last) =>
          /\ last.description_lang = UNKNOWN
          /\ ~Called(last.events, "extract_job_data")
    /\ BlankDescription(indeed) =>
          /\ indeed.description_lang = UNKNOWN
          /\ ~Called(indeed.events, "extract_job_data")

\* C30: the quotas are tested between listing pages only: with at most
\* MaxNodes cards on a page the collection never holds more than
\* max_jobs + MaxNodes - 1 records, a position never contributes more than
\* max_jobs_per_position + MaxNodes - 1, and at the head of either loop
\* total_jobs is the number of records admitted by this run.
C30_QuotaOvershoot ==
    /\ Len(job_listings) <= max_jobs + MaxNodes - 1
    /\ pc \in {"while", "nodes", "for"} =>
          AdmittedInPosition <= max_jobs_per_position + MaxNodes - 1
    /\ pc \in {"for", "while"} => total_jobs = Len(job_listings)

\* a crawl returned more records than the global quota, admitted by the page
\* that was being parsed when the quota was reached
C30_Witness ==
    /\ pc = "done"
    /\ max_jobs > 0
    /\ Len(returned) > max_jobs
    /\ total_jobs = Len(returned)

====
